---- MODULE Spec2Model ----
(***************************************************************************)
(* Model of `pkg info' (exec_info): option handling, the in-place scan of  *)
(* a specifier for version operators, the filter applied to the packages   *)
(* a database cursor yields, and the exit status threaded through the      *)
(* specifiers of one invocation.                                           *)
(***************************************************************************)
EXTENDS Integers, Sequences, FiniteSets, TLC

\* ---------------------------------------------------------------- bounds
MaxArgs == 2        \* positional specifiers of one invocation
MaxCands == 2       \* packages one cursor yields before it stops
MaxFlags == 1       \* option letters of one invocation
\* the bounds of the runs that vary the options rather than the specifiers
MaxLetters == 2     \* option letters of one invocation
MaxFewArgs == 2     \* positional specifiers of one invocation
MaxFewCands == 1    \* packages one cursor yields before it stops

\* ------------------------------------------------------- program constants
LT == 0
LE == 1
GT == 2
GE == 3
EQ == 4

EX_OK == 0
EX_USAGE == 64
EX_UNAVAILABLE == 69
EX_SOFTWARE == 70
EX_IOERR == 74
EX_NOPERM == 77

MATCH_ALL == "MATCH_ALL"
MATCH_GLOB == "MATCH_GLOB"
MATCH_REGEX == "MATCH_REGEX"

INFO_TAG_NAMEVER == "INFO_TAG_NAMEVER"
INFO_FULL == "INFO_FULL"
INFO_COMMENT == "INFO_COMMENT"
\* the field categories (the identifying tags and INFO_RAW are not among them)
INFO_ALL ==
    {"INFO_ANNOTATIONS", "INFO_MESSAGE", "INFO_DEPS", "INFO_COMMENT",
     "INFO_RDEPS", "INFO_LOCKED", "INFO_FILES", "INFO_SHLIBS_PROVIDED",
     "INFO_SHLIBS_REQUIRED", "INFO_FLATSIZE", "INFO_ORIGIN", "INFO_PREFIX",
     "INFO_FULL"}

\* the byte that ends a C string
NUL == ""
\* a char * that points nowhere
NULL == [arg |-> -1, off |-> 0]
\* exec_info has not returned yet
Running == -1

\* --------------------------------------------------------------- inputs
\* pkg>=1.0<2.0 and friends, one character per element
Tokens ==
    { <<"p">>,
      <<"p", "*">>,
      <<"p", "/">>,
      <<"/">>,
      << >>,
      <<"p", "<", "1", ".", "0">>,
      <<"p", "<", "=", "1", ".", "0">>,
      <<"p", ">", "1", ".", "0">>,
      <<"p", ">", "=", "1", ".", "0">>,
      <<"p", "=", "1", ".", "0">>,
      <<"p", "=", "=", "1", ".", "0">>,
      <<"p", ">", "=", "1", ".", "0", "<", "2", ".", "0">>,
      <<"p", ">", "1", ".", "0", "<", "=", "2", ".", "0">>,
      <<"p", "<", "1", ".", "0", "<", "2", ".", "0">>,
      <<"<", "1", ".", "0">> }

\* the versions of the packages the database holds
Versions ==
    { <<"0", ".", "9">>, <<"1", ".", "0">>, <<"1", ".", "5">>,
      <<"2", ".", "0">>, <<"3", ".", "0">> }

\* the option letters tried
FlagChars == {"a", "g", "x", "e", "O", "q", "E", "I", "F", "?"}

\* the inputs of the runs that vary the options
FewTokens == { <<"p">>, <<"p", "*">>, <<"p", "<", "1", ".", "0">> }
FewVersions == { <<"1", ".", "0">> }
Letters == {"a", "g", "x", "e", "O", "q", "E", "I", "d", "F", "?"}

RECURSIVE SeqsUpTo(_, _)
SeqsUpTo(S, n) ==
    IF n = 0 THEN {<< >>}
    ELSE LET shorter == SeqsUpTo(S, n - 1)
         IN shorter \cup {Append(s, c) : s \in shorter, c \in S}

\* --------------------------------------------------------- C strings
\* pkgname[j]
CharAt(buf, j) == buf[j + 1]

\* pkgname[j] = c
Poke(buf, j, c) == [buf EXCEPT ![j + 1] = c]

RECURSIVE strlenFrom(_, _)
strlenFrom(buf, j) ==
    IF CharAt(buf, j) = NUL THEN 0 ELSE 1 + strlenFrom(buf, j + 1)

strlen(buf) == strlenFrom(buf, 0)

\* the string a pointer into the argument vector denotes
CStr(av, p) ==
    LET buf == av[p.arg + 1]
    IN SubSeq(buf, p.off + 1, p.off + strlenFrom(buf, p.off))

\* ------------------------------------------------ version comparison
Digit(c) ==
    CASE c = "0" -> 0 [] c = "1" -> 1 [] c = "2" -> 2 [] c = "3" -> 3
      [] c = "4" -> 4 [] c = "5" -> 5 [] c = "6" -> 6 [] c = "7" -> 7
      [] c = "8" -> 8 [] c = "9" -> 9 [] OTHER -> 0

\* the dot-separated components of a version, as numbers
RECURSIVE Components(_, _, _)
Components(s, k, acc) ==
    IF k > Len(s) THEN <<acc>>
    ELSE IF s[k] = "." THEN <<acc>> \o Components(s, k + 1, 0)
    ELSE Components(s, k + 1, 10 * acc + Digit(s[k]))

Component(cs, k) == IF k <= Len(cs) THEN cs[k] ELSE 0

RECURSIVE CmpFrom(_, _, _)
CmpFrom(a, b, k) ==
    IF k > Len(a) /\ k > Len(b) THEN 0
    ELSE IF Component(a, k) < Component(b, k) THEN -1
    ELSE IF Component(a, k) > Component(b, k) THEN 1
    ELSE CmpFrom(a, b, k + 1)

\* three-way comparison of two version strings
pkg_version_cmp(a, b) == CmpFrom(Components(a, 1, 0), Components(b, 1, 0), 1)

\* ------------------------------------------------------ option letters
\* the locals the option loop sets, as exec_info declares them
InitialOptions ==
    [match |-> MATCH_GLOB, opt |-> {INFO_TAG_NAMEVER}, origin_search |-> FALSE,
     pkg_exists |-> FALSE, retcode |-> 0, quiet |-> FALSE, e_flag |-> FALSE,
     file |-> FALSE, usage |-> FALSE]

\* one case of the switch over getopt's result
ApplyOption(o, ch) ==
    CASE ch = "a" -> [o EXCEPT !.match = MATCH_ALL]
      [] ch = "A" -> [o EXCEPT !.opt = @ \cup {"INFO_ANNOTATIONS"}]
      [] ch = "O" -> [o EXCEPT !.origin_search = TRUE]
      [] ch = "e" -> [o EXCEPT !.pkg_exists = TRUE, !.retcode = 1]
      [] ch = "g" -> [o EXCEPT !.match = MATCH_GLOB]
      [] ch = "i" -> o
      [] ch = "x" -> [o EXCEPT !.match = MATCH_REGEX]
      [] ch = "D" -> [o EXCEPT !.opt = @ \cup {"INFO_MESSAGE"}]
      [] ch = "d" -> [o EXCEPT !.opt = @ \cup {"INFO_DEPS"}]
      [] ch = "I" -> [o EXCEPT !.opt = @ \cup {INFO_COMMENT}]
      [] ch = "r" -> [o EXCEPT !.opt = @ \cup {"INFO_RDEPS"}]
      [] ch = "k" -> [o EXCEPT !.opt = @ \cup {"INFO_LOCKED"}]
      [] ch = "l" -> [o EXCEPT !.opt = @ \cup {"INFO_FILES"}]
      [] ch = "b" -> [o EXCEPT !.opt = @ \cup {"INFO_SHLIBS_PROVIDED"}]
      [] ch = "B" -> [o EXCEPT !.opt = @ \cup {"INFO_SHLIBS_REQUIRED"}]
      [] ch = "s" -> [o EXCEPT !.opt = @ \cup {"INFO_FLATSIZE"}]
      [] ch = "E" -> [o EXCEPT !.e_flag = TRUE]
      [] ch = "q" -> [o EXCEPT !.quiet = TRUE]
      [] ch = "o" -> [o EXCEPT !.opt = @ \cup {"INFO_ORIGIN"}]
      [] ch = "p" -> [o EXCEPT !.opt = @ \cup {"INFO_PREFIX"}]
      [] ch = "f" -> [o EXCEPT !.opt = @ \cup {INFO_FULL}]
      [] ch = "F" -> [o EXCEPT !.file = TRUE]
      [] ch = "R" -> [o EXCEPT !.opt = @ \cup {"INFO_RAW"}]
      [] OTHER -> [o EXCEPT !.usage = TRUE]

\* while ((ch = getopt(...)) != -1): the letters in order, stopping at the
\* first one getopt does not know
RECURSIVE GetOpts(_, _, _)
GetOpts(o, fl, k) ==
    IF k > Len(fl) \/ o.usage THEN o
    ELSE GetOpts(ApplyOption(o, fl[k]), fl, k + 1)

\* AfterOptions with the test argc == 1 left out of the first condition
AfterOptionsQuietOnly(o, rawargc, argc) ==
    LET o1 == IF rawargc = 2 /\ o.quiet
              THEN [o EXCEPT !.match = MATCH_ALL] ELSE o
        stop == argc = 0 /\ ~o1.file /\ o1.match # MATCH_ALL
        o2 == IF ~o1.origin_search /\ (o1.opt \cap INFO_ALL) = {}
                 /\ o1.match = MATCH_ALL /\ ~o1.quiet
              THEN [o1 EXCEPT !.opt = @ \cup {INFO_COMMENT}] ELSE o1
        o3 == IF o2.origin_search
              THEN IF o2.quiet
                   THEN [o2 EXCEPT !.opt = {INFO_TAG_NAMEVER}, !.quiet = FALSE]
                   ELSE [o2 EXCEPT !.opt = {INFO_TAG_NAMEVER, INFO_COMMENT}]
              ELSE o2
        o4 == IF o3.match = MATCH_ALL /\ o3.opt = {INFO_TAG_NAMEVER}
              THEN [o3 EXCEPT !.quiet = FALSE] ELSE o3
    IN IF stop
       THEN [o1 EXCEPT !.usage = ~o1.origin_search] @@ [stop |-> TRUE]
       ELSE o4 @@ [stop |-> FALSE]

\* AfterOptions with the comment default given to the modes other than ALL
AfterOptionsCommentNotAll(o, rawargc, argc) ==
    LET o1 == IF rawargc = 1 \/ (rawargc = 2 /\ o.quiet)
              THEN [o EXCEPT !.match = MATCH_ALL] ELSE o
        stop == argc = 0 /\ ~o1.file /\ o1.match # MATCH_ALL
        o2 == IF ~o1.origin_search /\ (o1.opt \cap INFO_ALL) = {}
                 /\ o1.match # MATCH_ALL /\ ~o1.quiet
              THEN [o1 EXCEPT !.opt = @ \cup {INFO_COMMENT}] ELSE o1
        o3 == IF o2.origin_search
              THEN IF o2.quiet
                   THEN [o2 EXCEPT !.opt = {INFO_TAG_NAMEVER}, !.quiet = FALSE]
                   ELSE [o2 EXCEPT !.opt = {INFO_TAG_NAMEVER, INFO_COMMENT}]
              ELSE o2
        o4 == IF o3.match = MATCH_ALL /\ o3.opt = {INFO_TAG_NAMEVER}
              THEN [o3 EXCEPT !.quiet = FALSE] ELSE o3
    IN IF stop
       THEN [o1 EXCEPT !.usage = ~o1.origin_search] @@ [stop |-> TRUE]
       ELSE o4 @@ [stop |-> FALSE]

\* what follows the option loop up to the -F test; rawargc is argc as main
\* received it, argc the number of positional arguments
AfterOptions(o, rawargc, argc) ==
    LET o1 == IF rawargc = 1 \/ (rawargc = 2 /\ o.quiet)
              THEN [o EXCEPT !.match = MATCH_ALL] ELSE o
        stop == argc = 0 /\ ~o1.file /\ o1.match # MATCH_ALL
        o2 == IF ~o1.origin_search /\ (o1.opt \cap INFO_ALL) = {}
                 /\ o1.match = MATCH_ALL /\ ~o1.quiet
              THEN [o1 EXCEPT !.opt = @ \cup {INFO_COMMENT}] ELSE o1
        o3 == IF o2.origin_search
              THEN IF o2.quiet
                   THEN [o2 EXCEPT !.opt = {INFO_TAG_NAMEVER}, !.quiet = FALSE]
                   ELSE [o2 EXCEPT !.opt = {INFO_TAG_NAMEVER, INFO_COMMENT}]
              ELSE o2
        o4 == IF o3.match = MATCH_ALL /\ o3.opt = {INFO_TAG_NAMEVER}
              THEN [o3 EXCEPT !.quiet = FALSE] ELSE o3
    IN IF stop
       THEN [o1 EXCEPT !.usage = ~o1.origin_search] @@ [stop |-> TRUE]
       ELSE o4 @@ [stop |-> FALSE]

\* ---------------------------------------------------- specifier scan
\* IsOperator with the case of '=' left out
IsOperatorButEq(c) == c \in {"<", ">"}

\* pkgname[j] is one of '<', '>' and '='
IsOperator(c) == c \in {"<", ">", "="}

\* the sign an operator character stands for on its own
OpSign(c) == CASE c = "<" -> LT [] c = ">" -> GT [] c = "=" -> EQ

\* the sign when the operator character is followed by '='
OpSignEq(c) == CASE c = "<" -> LE [] c = ">" -> GE [] c = "=" -> EQ

\* ScanOperators with every operator written to pkgversion and sign, a
\* later one over an earlier one
RECURSIVE ScanOverwrites(_, _)
ScanOverwrites(s, i) ==
    LET c == CharAt(s.buf, s.j)
    IN IF c = NUL THEN s
       ELSE IF IsOperator(c)
       THEN LET buf1 == Poke(s.buf, s.j, NUL)
                eq == CharAt(buf1, s.j + 1) = "="
                step == IF eq THEN 2 ELSE 1
                ptr == [arg |-> i, off |-> s.j + step]
            IN ScanOverwrites(
                   [s EXCEPT !.buf = buf1, !.j = @ + step,
                             !.pkgversion = ptr,
                             !.sign = IF eq THEN OpSignEq(c) ELSE OpSign(c)], i)
       ELSE ScanOverwrites([s EXCEPT !.j = @ + 1], i)

\* the while loop over pkgname[j]; s holds the buffer of argv[i], j and the
\* four locals the scan writes
RECURSIVE ScanOperators(_, _)
ScanOperators(s, i) ==
    LET c == CharAt(s.buf, s.j)
    IN IF c = NUL THEN s
       ELSE IF IsOperator(c)
       THEN LET buf1 == Poke(s.buf, s.j, NUL)
                eq == CharAt(buf1, s.j + 1) = "="
                step == IF eq THEN 2 ELSE 1
                ptr == [arg |-> i, off |-> s.j + step]
            IN IF s.pkgversion # NULL
               THEN ScanOperators(
                        [s EXCEPT !.buf = buf1, !.j = @ + step,
                                  !.pkgversion2 = ptr, !.sign2 = OpSign(c),
                                  !.sign = IF eq THEN OpSignEq(c) ELSE @], i)
               ELSE ScanOperators(
                        [s EXCEPT !.buf = buf1, !.j = @ + step,
                                  !.pkgversion = ptr,
                                  !.sign = IF eq THEN OpSignEq(c) ELSE OpSign(c)], i)
       ELSE ScanOperators([s EXCEPT !.j = @ + 1], i)

\* pkgname[strlen(pkgname) - 1] = '\0' when that byte is a slash.  For an
\* empty token the byte read lies before the buffer; whatever it holds,
\* the token itself stays empty.
StripSlash(buf) ==
    LET n == strlen(buf)
    IN IF n > 0 /\ CharAt(buf, n - 1) = "/" THEN Poke(buf, n - 1, NUL) ELSE buf

\* ------------------------------------------------- constraint filter
\* Drops with EQ forgotten in the case of equal versions
DropsEqForgotten(sg, cmp) ==
    CASE cmp = -1 -> sg # LT /\ sg # LE
      [] cmp = 0 -> sg # LE /\ sg # GE
      [] cmp = 1 -> sg # GT /\ sg # GE
      [] OTHER -> FALSE

\* one switch over pkg_version_cmp's result: TRUE when the candidate is
\* dropped (gotone = false; continue)
Drops(sg, cmp) ==
    CASE cmp = -1 -> sg # LT /\ sg # LE
      [] cmp = 0 -> sg # LE /\ sg # GE /\ sg # EQ
      [] cmp = 1 -> sg # GT /\ sg # GE
      [] OTHER -> FALSE

\* Survives with the second switch left out
SurvivesFirstOnly(version, av, pv, sg, pv2, sg2) ==
    ~(pv # NULL /\ Drops(sg, pkg_version_cmp(version, CStr(av, pv))))

\* the candidate reaches the end of the loop body
Survives(version, av, pv, sg, pv2, sg2) ==
    /\ ~(pv # NULL /\ Drops(sg, pkg_version_cmp(version, CStr(av, pv))))
    /\ ~(pv2 # NULL /\ Drops(sg2, pkg_version_cmp(version, CStr(av, pv2))))

\* ------------------------------------------------------------- state
VARIABLES
    pc,             \* where exec_info stands
    match, opt, origin_search, pkg_exists, quiet, e_flag, file,
    argc, argv,     \* positional arguments: their number, their buffers
    i, gotone, retcode, ret,
    sign, sign2, pkgversion, pkgversion2,
    db, it,         \* the database handle and the cursor: "null", "open", "closed"
    pkg,            \* version of the package pkgdb_it_next filled in last
    yielded,        \* packages the open cursor has yielded
    result,         \* what exec_info returned
    printed,        \* print_info calls made for the current specifier
    warned,         \* specifiers "No package(s) matching" was written for
    survived,       \* specifiers a candidate of which passed the filter
    iterated,       \* specifiers whose cursor was read until it stopped
    broken,         \* specifiers whose cursor stopped with an error
    tokens,         \* the positional arguments as they were given
    flags,          \* the option letters as they were given
    opened,         \* cursors pkgdb_query has returned
    freed           \* calls of pkgdb_it_free

config == <<match, opt, origin_search, pkg_exists, quiet, e_flag, file, argc>>
scan == <<argv, sign, sign2, pkgversion, pkgversion2>>
ghost == <<printed, warned, survived, iterated, broken, tokens, flags, opened,
           freed>>
vars == <<pc, config, scan, i, gotone, retcode, ret, db, it, pkg, yielded,
          result, ghost>>

Init ==
    /\ pc = "options"
    /\ match = MATCH_GLOB
    /\ opt = {INFO_TAG_NAMEVER}
    /\ origin_search = FALSE
    /\ pkg_exists = FALSE
    /\ quiet = FALSE
    /\ e_flag = FALSE
    /\ file = FALSE
    /\ argc = 0
    /\ argv = << >>
    /\ i = 0
    /\ gotone = FALSE
    /\ retcode = 0
    /\ ret = "EPKG_OK"
    /\ sign = 0
    /\ sign2 = 0
    /\ pkgversion = NULL
    /\ pkgversion2 = NULL
    /\ db = "null"
    /\ it = "null"
    /\ pkg = << >>
    /\ yielded = 0
    /\ result = Running
    /\ printed = << >>
    /\ warned = {}
    /\ survived = {}
    /\ iterated = {}
    /\ broken = {}
    /\ tokens = << >>
    /\ flags = << >>
    /\ opened = 0
    /\ freed = 0

\* the words the option letters can occupy on the command line
FlagWords(fl) == IF fl = << >> THEN {0} ELSE 1..Len(fl)

\* NextStep with the test of file left out
NextStepDatabase(x) == "access"

\* where exec_info goes after the adjustments: the -F branch or the database
NextStep(x) == IF x.file THEN "file" ELSE "access"

\* the option loop and the adjustments after it, for the option letters of
\* flagseqs and up to maxpos positional arguments
ParseOptionsOf(flagseqs, maxpos) ==
    /\ pc = "options"
    /\ \E fl \in flagseqs, npos \in 0..maxpos :
         \E words \in FlagWords(fl) :
           LET o == GetOpts(InitialOptions, fl, 1)
               a == AfterOptions(o, 1 + words + npos, npos)
               x == IF o.usage THEN o @@ [stop |-> TRUE] ELSE a
           IN /\ match' = x.match
              /\ opt' = x.opt
              /\ origin_search' = x.origin_search
              /\ pkg_exists' = x.pkg_exists
              /\ quiet' = x.quiet
              /\ e_flag' = x.e_flag
              /\ file' = x.file
              /\ retcode' = x.retcode
              /\ argc' = npos
              /\ flags' = fl
              /\ IF x.stop
                 THEN /\ result' = IF x.usage THEN EX_USAGE ELSE EX_OK
                      /\ pc' = "done"
                 ELSE /\ result' = result
                      /\ pc' = NextStep(x)
    /\ UNCHANGED <<scan, i, gotone, ret, db, it, pkg, yielded, printed, warned,
                   survived, iterated, broken, tokens, opened, freed>>

ParseOptions == ParseOptionsOf(SeqsUpTo(FlagChars, MaxFlags), MaxArgs)

ParseOptionsWide == ParseOptionsOf(SeqsUpTo(Letters, MaxLetters), MaxFewArgs)

\* -F: one package read from a file
OpenFile ==
    /\ pc = "file"
    /\ \E ok \in BOOLEAN :
         IF ok
         THEN /\ opt' = IF opt = {INFO_TAG_NAMEVER} THEN opt \cup {INFO_FULL} ELSE opt
              /\ printed' = Append(printed, <<-1, << >>>>)
              /\ result' = 0
         ELSE /\ opt' = IF opt = {INFO_TAG_NAMEVER} THEN opt \cup {INFO_FULL} ELSE opt
              /\ printed' = printed
              /\ result' = 1
    /\ pc' = "done"
    /\ UNCHANGED <<match, origin_search, pkg_exists, quiet, e_flag, file, argc,
                   scan, i, gotone, retcode, ret, db, it, pkg, yielded,
                   warned, survived, iterated, broken, tokens, flags, opened,
                   freed>>

\* AccessStatus with the test of origin_search left out
AccessStatusNoOrigin(r, m, origin) ==
    IF r = "EPKG_ENOACCESS" THEN EX_NOPERM
    ELSE IF r = "EPKG_ENODB"
    THEN IF m = MATCH_ALL THEN EX_OK ELSE EX_UNAVAILABLE
    ELSE IF r # "EPKG_OK" THEN EX_IOERR
    ELSE Running

\* what exec_info returns after pkgdb_access gave r (Running: it goes on)
AccessStatus(r, m, origin) ==
    IF r = "EPKG_ENOACCESS" THEN EX_NOPERM
    ELSE IF r = "EPKG_ENODB"
    THEN IF m = MATCH_ALL THEN EX_OK
         ELSE IF origin THEN EX_OK
         ELSE EX_UNAVAILABLE
    ELSE IF r # "EPKG_OK" THEN EX_IOERR
    ELSE Running

\* pkgdb_access and the returns that follow it
Access ==
    /\ pc = "access"
    /\ \E r \in {"EPKG_OK", "EPKG_ENOACCESS", "EPKG_ENODB", "EPKG_FATAL"} :
         /\ ret' = r
         /\ result' = AccessStatus(r, match, origin_search)
         /\ pc' = IF AccessStatus(r, match, origin_search) = Running
                  THEN "open" ELSE "done"
    /\ UNCHANGED <<config, scan, i, gotone, retcode, db, it, pkg, yielded, ghost>>

\* pkgdb_open
OpenDb ==
    /\ pc = "open"
    /\ \E r \in {"EPKG_OK", "EPKG_FATAL"} :
         /\ ret' = r
         /\ IF r # "EPKG_OK"
            THEN result' = EX_IOERR /\ pc' = "done" /\ db' = db
            ELSE result' = result /\ pc' = "top" /\ db' = "open"
    /\ UNCHANGED <<config, scan, i, gotone, retcode, it, pkg, yielded, ghost>>

\* EmptyPattern with the test of pkgname[0] left out
EmptyPatternNever(m, buf) == FALSE

\* EmptyPattern with the test of the mode turned round
EmptyPatternUnderAll(m, buf) == m = MATCH_ALL /\ CharAt(buf, 0) = NUL

\* match != MATCH_ALL && pkgname[0] == '\0'
EmptyPattern(m, buf) == m # MATCH_ALL /\ CharAt(buf, 0) = NUL

\* the top of the do loop: the slash, the scan for operators and the
\* rejection of an empty pattern, for argv[i] among toks
ParseSpecifierOf(toks) ==
    /\ pc = "top"
    /\ gotone' = FALSE
    /\ printed' = << >>
    /\ IF argc > 0
       THEN \E tok \in toks :
              LET s == ScanOperators(
                           [buf |-> StripSlash(tok \o <<NUL>>), j |-> 0,
                            pkgversion |-> pkgversion, sign |-> sign,
                            pkgversion2 |-> pkgversion2, sign2 |-> sign2], i)
                  empty == EmptyPattern(match, s.buf)
              IN /\ argv' = Append(argv, s.buf)
                 /\ tokens' = Append(tokens, tok)
                 /\ sign' = s.sign
                 /\ sign2' = s.sign2
                 /\ pkgversion' = s.pkgversion
                 /\ pkgversion2' = s.pkgversion2
                 /\ i' = IF empty THEN i + 1 ELSE i
                 /\ pc' = IF ~empty THEN "query"
                          ELSE IF i + 1 < argc THEN "top" ELSE "exit"
       ELSE /\ UNCHANGED <<scan, i, tokens>>
            /\ pc' = "query"
    /\ UNCHANGED <<config, retcode, ret, db, it, pkg, yielded, result, warned,
                   survived, iterated, broken, flags, opened, freed>>

ParseSpecifier == ParseSpecifierOf(Tokens)

ParseSpecifierFew == ParseSpecifierOf(FewTokens)

\* NoGlobChars with the star missing from the reject set
NoGlobCharsButStar(name) ==
    \A k \in 1..Len(name) : name[k] \notin {"[", "]", "{", "}", "(", ")"}

\* strcspn(pkgname, "*[]{}()") == strlen(pkgname)
NoGlobChars(name) ==
    \A k \in 1..Len(name) : name[k] \notin {"*", "[", "]", "{", "}", "(", ")"}

\* pkgdb_query and the compatibility hacks before the iteration
Query ==
    /\ pc = "query"
    /\ \E ok \in BOOLEAN :
         IF ok
         THEN /\ it' = "open"
              /\ opened' = opened + 1
              /\ yielded' = 0
              /\ gotone' = (origin_search \/ gotone)
              /\ opt' = IF /\ argc = 1
                           /\ ~origin_search /\ ~quiet /\ ~e_flag
                           /\ match = MATCH_GLOB
                           /\ NoGlobChars(CStr(argv, [arg |-> i, off |-> 0]))
                           /\ opt = {INFO_TAG_NAMEVER}
                        THEN opt \cup {INFO_FULL} ELSE opt
              /\ pc' = "iter"
              /\ result' = result
         ELSE /\ result' = EX_IOERR
              /\ pc' = "done"
              /\ UNCHANGED <<it, opened, yielded, gotone, opt>>
    /\ UNCHANGED <<match, origin_search, pkg_exists, quiet, e_flag, file, argc,
                   scan, i, retcode, ret, db, pkg, printed, warned, survived,
                   iterated, broken, tokens, flags, freed>>

\* Prints with print_info called ahead of the two switches
PrintsUnfiltered(keep, exists) == ~exists

\* the end of the loop body: print_info(pkg, opt) unless -e was given
Prints(keep, exists) == keep /\ ~exists

\* pkgdb_it_next returns EPKG_OK with a package of some version among
\* versions, at most maxcands times: one pass through the body of the while
\* loop
ItNextPkgOf(versions, maxcands) ==
    /\ pc = "iter"
    /\ yielded < maxcands
    /\ \E version \in versions :
         LET keep == Survives(version, argv, pkgversion, sign, pkgversion2, sign2)
         IN /\ pkg' = version
            /\ gotone' = keep
            /\ retcode' = IF keep /\ pkg_exists THEN EX_OK ELSE retcode
            /\ printed' = IF Prints(keep, pkg_exists)
                          THEN Append(printed, <<i, version>>) ELSE printed
            /\ survived' = IF keep THEN survived \cup {i} ELSE survived
    /\ ret' = "EPKG_OK"
    /\ yielded' = yielded + 1
    /\ UNCHANGED <<pc, config, scan, i, db, it, result, warned, iterated,
                   broken, tokens, flags, opened, freed>>

ItNextPkg == ItNextPkgOf(Versions, MaxCands)

ItNextPkgFew == ItNextPkgOf(FewVersions, MaxFewCands)

\* IoStatus computing each specifier's status afresh
IoStatusFresh(rc, r) == IF r # "EPKG_END" THEN EX_IOERR ELSE EX_OK

\* IoStatus leaving a status that is no longer success alone
IoStatusGuarded(rc, r) == IF r # "EPKG_END" /\ rc = EX_OK THEN EX_IOERR ELSE rc

\* if (ret != EPKG_END) retcode = EX_IOERR
IoStatus(rc, r) == IF r # "EPKG_END" THEN EX_IOERR ELSE rc

\* NoMatch without the test of the status
NoMatchUnguarded(rc, got, m) == ~got /\ m # MATCH_ALL

\* the test that guards the "No package(s) matching" branch
NoMatch(rc, got, m) == rc = EX_OK /\ ~got /\ m # MATCH_ALL

\* FreedAfter when only a cursor that ended cleanly is freed
FreedAfterCleanEnd(n, r) == IF r = "EPKG_END" THEN n + 1 ELSE n

\* pkgdb_it_free(it) after the while loop, whatever ended it
FreedAfter(n, r) == n + 1

\* pkgdb_it_next returns something else: the loop ends, the status is
\* settled, the cursor is freed and the do loop advances
ItNextStop ==
    /\ pc = "iter"
    /\ \E r \in {"EPKG_END", "EPKG_FATAL"} :
         LET rc == IoStatus(retcode, r)
         IN /\ ret' = r
            /\ retcode' = IF NoMatch(rc, gotone, match) THEN EX_SOFTWARE ELSE rc
            /\ warned' = IF NoMatch(rc, gotone, match) /\ ~quiet
                         THEN warned \cup {i} ELSE warned
            /\ broken' = IF r # "EPKG_END" THEN broken \cup {i} ELSE broken
            /\ freed' = FreedAfter(freed, r)
    /\ it' = "closed"
    /\ yielded' = 0
    /\ iterated' = iterated \cup {i}
    /\ i' = i + 1
    /\ pc' = IF i + 1 < argc THEN "top" ELSE "exit"
    /\ UNCHANGED <<config, scan, gotone, db, pkg, result, printed, survived,
                   tokens, flags, opened>>

\* after the do loop
Finish ==
    /\ pc = "exit"
    /\ db' = "closed"
    /\ result' = retcode
    /\ pc' = "done"
    /\ UNCHANGED <<config, scan, i, gotone, retcode, ret, it, pkg, yielded, ghost>>

Next ==
    \/ ParseOptions
    \/ OpenFile
    \/ Access
    \/ OpenDb
    \/ ParseSpecifier
    \/ Query
    \/ ItNextPkg
    \/ ItNextStop
    \/ Finish

Spec == Init /\ [][Next]_vars

\* the same program run over more option letters and fewer specifiers
NextFlags ==
    \/ ParseOptionsWide
    \/ OpenFile
    \/ Access
    \/ OpenDb
    \/ ParseSpecifierFew
    \/ Query
    \/ ItNextPkgFew
    \/ ItNextStop
    \/ Finish

SpecFlags == Init /\ [][NextFlags]_vars

\* ============================================================ claims
Last(sq) == sq[Len(sq)]

V09 == <<"0", ".", "9">>
V10 == <<"1", ".", "0">>
V15 == <<"1", ".", "5">>
V20 == <<"2", ".", "0">>
V30 == <<"3", ".", "0">>

\* p>=1.0<2.0
RangeToken == <<"p", ">", "=", "1", ".", "0", "<", "2", ".", "0">>
\* p>1.0<=2.0
OpenClosedToken == <<"p", ">", "1", ".", "0", "<", "=", "2", ".", "0">>

\* the loop body has just run for the package pkg
Candidate == pc = "iter" /\ yielded > 0

\* that package passed the filter: it counts as a match and was printed
\* (or, with -e, made the status success)
Kept ==
    /\ gotone
    /\ i \in survived
    /\ IF pkg_exists THEN retcode = EX_OK
       ELSE printed # << >> /\ Last(printed) = <<i, pkg>>

\* that package was dropped: no match, nothing printed for it
Dropped == ~gotone /\ Len(printed) < yielded

\* version stands in relation op to bound
Sat(op, version, bound) ==
    LET c == pkg_version_cmp(version, bound)
    IN CASE op = LT -> c < 0
         [] op = LE -> c <= 0
         [] op = GT -> c > 0
         [] op = GE -> c >= 0
         [] op = EQ -> c = 0

\* the constraints a token spells out, read left to right: each operator
\* with the version text that follows it up to the next operator
WithoutSlash(tok) ==
    IF tok # << >> /\ Last(tok) = "/" THEN SubSeq(tok, 1, Len(tok) - 1) ELSE tok

RECURSIVE NextOperator(_, _)
NextOperator(tok, k) ==
    IF k > Len(tok) \/ IsOperator(tok[k]) THEN k ELSE NextOperator(tok, k + 1)

RECURSIVE SegmentsFrom(_, _)
SegmentsFrom(tok, k) ==
    LET at == NextOperator(tok, k)
    IN IF at > Len(tok) THEN << >>
       ELSE LET eq == at < Len(tok) /\ tok[at + 1] = "="
                from == IF eq THEN at + 2 ELSE at + 1
                to == NextOperator(tok, from)
            IN <<[sign |-> IF eq THEN OpSignEq(tok[at]) ELSE OpSign(tok[at]),
                  version |-> SubSeq(tok, from, to - 1)]>>
               \o SegmentsFrom(tok, to)

Segments(tok) == SegmentsFrom(WithoutSlash(tok), 1)

\* C1: a candidate filtered under two recorded constraints is kept exactly
\* when its version satisfies the first and the second; for p>=1.0<2.0 as
\* the first specifier, of 0.9, 1.0, 1.5, 2.0 and 3.0 exactly 1.0 and 1.5
\* are kept.
C1_BothConstraints ==
    /\ (Candidate /\ pkgversion # NULL /\ pkgversion2 # NULL)
         => IF /\ Sat(sign, pkg, CStr(argv, pkgversion))
               /\ Sat(sign2, pkg, CStr(argv, pkgversion2))
            THEN Kept ELSE Dropped
    /\ (Candidate /\ i = 0 /\ argc > 0 /\ tokens[1] = RangeToken)
         => IF pkg \in {V10, V15} THEN Kept ELSE Dropped

C1_Witness ==
    /\ Candidate /\ i = 0 /\ argc > 0 /\ tokens[1] = RangeToken
    /\ pkgversion # NULL /\ pkgversion2 # NULL
    /\ pkg = V15 /\ Kept /\ yielded = 2 /\ printed = <<<<0, V15>>>>

\* C2: a candidate filtered under one constraint is kept exactly when the
\* comparison of its version with the bound is -1 and the operator LT or
\* LE, or 0 and the operator LE, GE or EQ, or +1 and the operator GT or GE.
C2_SingleConstraint ==
    (Candidate /\ pkgversion # NULL /\ pkgversion2 = NULL)
      => LET cmp == pkg_version_cmp(pkg, CStr(argv, pkgversion))
         IN IF \/ cmp = -1 /\ sign \in {LT, LE}
               \/ cmp = 0 /\ sign \in {LE, GE, EQ}
               \/ cmp = 1 /\ sign \in {GT, GE}
            THEN Kept ELSE Dropped

C2_Witness ==
    /\ Candidate /\ pkgversion # NULL /\ pkgversion2 = NULL
    /\ sign = EQ
    /\ pkg_version_cmp(pkg, CStr(argv, pkgversion)) = 0
    /\ Kept

\* C3: for a first specifier that spells two constraints, the scan records
\* for constraint 2 the second operator (LE/GE when '=' follows it) and its
\* version, and leaves constraint 1 as the first operator set it.
C3_SecondOperator ==
    (pc = "query" /\ i = 0 /\ argc > 0 /\ Len(Segments(tokens[1])) = 2)
      => LET sg == Segments(tokens[1])
         IN /\ sign = sg[1].sign
            /\ CStr(argv, pkgversion) = sg[1].version
            /\ sign2 = sg[2].sign
            /\ CStr(argv, pkgversion2) = sg[2].version

\* C4: the candidates of a specifier are filtered by the constraints its
\* own token spells: none for a token without operator, constraint 1 alone
\* for a token with one operator.
C4_OwnConstraints ==
    (pc = "iter" /\ argc > 0)
      => LET sg == Segments(tokens[i + 1])
         IN /\ Len(sg) = 0 => pkgversion = NULL /\ pkgversion2 = NULL
            /\ Len(sg) = 1 =>
                 /\ pkgversion # NULL
                 /\ pkgversion2 = NULL
                 /\ sign = sg[1].sign
                 /\ CStr(argv, pkgversion) = sg[1].version

\* a specifier's cursor has just been read to its end
IterationOver == pc \in {"top", "exit"} /\ (i - 1) \in iterated

\* C5: without -O, when the iteration over a specifier's cursor is over,
\* gotone is true exactly when a candidate of that specifier passed the
\* filter, in whatever order the candidates came.
C5_MatchedIffSurvivor ==
    (IterationOver /\ ~origin_search) => (gotone <=> (i - 1) \in survived)

\* exec_info returned after two specifiers whose cursors both ended
\* cleanly, without -e
TwoSpecifiers ==
    /\ pc = "done" /\ db = "closed"
    /\ argc = 2 /\ iterated = {0, 1} /\ broken = {}
    /\ ~pkg_exists

\* C6 as stated: the last specifier's outcome is the exit status.
C6_LastSpecifierWins ==
    TwoSpecifiers
      => /\ (0 \notin survived /\ 1 \in survived) => result = EX_OK
         /\ (0 \in survived /\ 1 \notin survived) => result = EX_SOFTWARE

\* C6 amended: under a mode other than ALL and without -O, a specifier
\* that matches nothing makes the exit status the software error, whether
\* it is the first or the second; a later match does not undo it.
C6_FailureKept ==
    (TwoSpecifiers /\ match # MATCH_ALL /\ ~origin_search)
      => /\ 0 \notin survived => result = EX_SOFTWARE
         /\ (0 \in survived /\ 1 \notin survived) => result = EX_SOFTWARE

C6_Witness ==
    /\ TwoSpecifiers /\ match # MATCH_ALL /\ ~origin_search
    /\ 0 \notin survived /\ 1 \in survived /\ gotone
    /\ result = EX_SOFTWARE

\* the step at which -e turns the status into success
ExistsFlip ==
    /\ pkg_exists
    /\ pc = "iter" /\ pc' = "iter"
    /\ gotone' /\ i \in survived'
    /\ retcode' = EX_OK

\* C7: retcode starts as EX_OK and no step lowers it, except the step at
\* which a candidate passes the filter under -e.
C7_NeverLowered ==
    /\ retcode = EX_OK
    /\ [][retcode' < retcode => ExistsFlip]_vars

C7_Witness ==
    /\ pkg_exists /\ Candidate /\ Kept
    /\ 0 \in broken /\ i = 1

\* C8: when a cursor stops, an end other than EPKG_END makes the status
\* EX_IOERR whatever it was and whatever matched; after a clean end with
\* gotone false under a mode other than ALL the status becomes EX_SOFTWARE
\* if it was EX_OK and stays as it was otherwise.
C8_StopRule ==
    [][(pc = "iter" /\ pc' # "iter")
         => /\ ret' # "EPKG_END" => retcode' = EX_IOERR
            /\ (ret' = "EPKG_END" /\ ~gotone /\ match # MATCH_ALL)
                 => retcode' = IF retcode = EX_OK THEN EX_SOFTWARE ELSE retcode]_vars

C8_Witness ==
    /\ pc = "exit" /\ iterated = {0, 1}
    /\ broken = {0} /\ ret = "EPKG_END"
    /\ ~gotone /\ match # MATCH_ALL
    /\ retcode = EX_IOERR

\* C9: every specifier whose iteration ends (cleanly) with gotone false
\* under a mode other than ALL, quiet off, gets the "No package(s)
\* matching" message, whatever the status was before.
C9_AlwaysWarned ==
    (IterationOver /\ (i - 1) \notin broken
       /\ ~gotone /\ match # MATCH_ALL /\ ~quiet)
      => (i - 1) \in warned

\* exec_info returned and no call into the database failed: it returned
\* before pkgdb_access, or found no database, or ran to the end of the loop
DatabaseFine ==
    /\ pc = "done" /\ ~file /\ result # EX_USAGE
    /\ \/ db = "null" /\ ret = "EPKG_OK"
       \/ ret = "EPKG_ENODB"
       \/ db = "closed" /\ broken = {}

\* C10: with -O and a database that is readable or absent, exec_info
\* returns EX_OK.
C10_OriginSuccess == (DatabaseFine /\ origin_search) => result = EX_OK

\* exec_info ran its loop over exactly one positional specifier and
\* returned, every call into the database having succeeded
OneSpecifierDone ==
    /\ pc = "done" /\ db = "closed" /\ ~file
    /\ argc = 1 /\ broken = {}

\* C11: under -e print_info is never called, and with a single specifier
\* exec_info returns 1 when no candidate survived the filter and EX_OK when
\* at least one did.
C11_ExistsOnly ==
    pkg_exists =>
      /\ printed = << >>
      /\ OneSpecifierDone => result = IF 0 \in survived THEN EX_OK ELSE 1

\* C12: a cursor pkgdb_query returned is freed exactly once: one cursor is
\* open while its specifier is iterated, and none is open at any other
\* point, in particular when the next specifier is taken up, when the next
\* cursor is asked for, and when exec_info has returned.
C12_FreedOnce ==
    /\ pc = "iter" => opened = freed + 1
    /\ pc # "iter" => opened = freed

\* two cursors were opened, the first stopped with an error, the second ended
\* cleanly, and exec_info returned
C12_Witness ==
    /\ pc = "done" /\ db = "closed"
    /\ opened = 2 /\ freed = 2
    /\ broken = {0} /\ iterated = {0, 1}

\* C13: a failure of pkgdb_query or of pkgdb_it_next leaves EX_IOERR as the
\* status of its specifier and the loop goes on: once the database was
\* opened, exec_info returns only after it took up every positional
\* argument.
C13_BatchGoesOn ==
    /\ (IterationOver /\ (i - 1) \in broken) => retcode = EX_IOERR
    /\ (pc = "done" /\ db # "null") => Len(tokens) = argc

\* the name a token spells out: what stands before its first operator once
\* a trailing slash is taken off
NamePart(tok) ==
    SubSeq(WithoutSlash(tok), 1, NextOperator(WithoutSlash(tok), 1) - 1)

\* exec_info takes up argv[i] under a mode other than ALL and its name is
\* empty
TakesUpEmptyName ==
    /\ pc = "top" /\ argc > 0 /\ match # MATCH_ALL
    /\ Len(tokens') = Len(tokens) + 1
    /\ NamePart(Last(tokens')) = << >>

\* C14: a specifier with an empty name under a mode other than ALL is
\* skipped: no cursor is opened, nothing is printed, the status stays as it
\* was, and the loop goes on with the next specifier where there is one.
C14_EmptySkipped ==
    [][TakesUpEmptyName
         => /\ i' = i + 1
            /\ pc' = IF i + 1 < argc THEN "top" ELSE "exit"
            /\ opened' = opened /\ it' = it
            /\ printed' = << >>
            /\ retcode' = retcode /\ result' = result]_vars

\* the first specifier was "/" and was skipped, and the second one is being
\* iterated
C14_Witness ==
    /\ pc = "iter" /\ i = 1 /\ yielded > 0
    /\ match # MATCH_ALL
    /\ tokens[1] = <<"/">>
    /\ iterated = {} /\ opened = 1

\* the option letter ch was given
Given(ch) == \E k \in 1..Len(flags) : flags[k] = ch

\* the option loop ended on letters getopt knows, and positional arguments
\* follow them
OptionsRead == pc # "options" /\ ~Given("?") /\ argc > 0

\* C15: the mode is ALL when -a was given, else REGEX when -x was given,
\* else GLOB, in whatever order -a, -g and -x stood.
C15_ModeByPriority ==
    OptionsRead
      => match = IF Given("a") THEN MATCH_ALL
                 ELSE IF Given("x") THEN MATCH_REGEX
                 ELSE MATCH_GLOB

\* exec_info returned and no call into the database failed: it returned
\* before pkgdb_access, or found no database, or ran to the end of the loop
NoCallFailed ==
    /\ pc = "done"
    /\ \/ db = "null" /\ ret = "EPKG_OK"
       \/ ret = "EPKG_ENODB"
       \/ db = "closed" /\ broken = {}

\* no option but the category flags -I and -d was given
OnlyCategoryFlags == \A k \in 1..Len(flags) : flags[k] \in {"I", "d"}

\* C16 as stated: with no positional argument, no -q and no -F the mode is
\* ALL and exec_info returns EX_OK, whichever category flags were given.
C16_NoArgsMeansAll ==
    (NoCallFailed /\ argc = 0 /\ OnlyCategoryFlags)
      => (match = MATCH_ALL /\ result = EX_OK)

\* C16, amended: with no argument at all the mode is ALL and exec_info
\* returns EX_OK; with no positional argument and some option, none of them
\* -a, -q, -F or -O, the mode is not ALL and exec_info returns EX_USAGE
\* before any call into the database.
C16_BareMeansAll ==
    /\ (pc # "options" /\ argc = 0 /\ flags = << >>) => match = MATCH_ALL
    /\ (NoCallFailed /\ argc = 0 /\ flags = << >>) => result = EX_OK
    /\ (pc = "done" /\ argc = 0 /\ flags # << >>
          /\ ~Given("a") /\ ~Given("q") /\ ~Given("F") /\ ~Given("O"))
         => /\ match # MATCH_ALL
            /\ result = EX_USAGE
            /\ db = "null" /\ ret = "EPKG_OK"

\* pkg info without any argument listed a package and returned EX_OK
C16_Witness ==
    /\ pc = "done" /\ db = "closed"
    /\ argc = 0 /\ flags = << >>
    /\ match = MATCH_ALL /\ iterated = {0}
    /\ printed # << >> /\ result = EX_OK

\* the option letters that ask for a category of information
CategoryLetters ==
    {"A", "D", "d", "I", "r", "k", "l", "b", "B", "s", "o", "p", "f", "R"}

NoCategoryFlag == \A k \in 1..Len(flags) : flags[k] \notin CategoryLetters

Wildcards == {"*", "[", "]", "{", "}", "(", ")"}

\* the conditions of C17, read off the command line: one positional
\* specifier, the mode GLOB, no wildcard in the name, and none of -q, -O,
\* -E or a category flag given
SingleUnambiguous ==
    /\ argc = 1
    /\ match = MATCH_GLOB
    /\ \A k \in 1..Len(NamePart(Last(tokens))) :
         NamePart(Last(tokens))[k] \notin Wildcards
    /\ ~Given("q") /\ ~Given("O") /\ ~Given("E")
    /\ NoCategoryFlag

\* C17: when the cursor of a specifier is opened, INFO_FULL is added to the
\* categories exactly when there is one positional specifier, the mode is
\* GLOB, the name holds no wildcard, and -q, -O, -E and the category flags
\* are all absent; among invocations without options and with one
\* specifier, p gets it and p* does not.
C17_FullDetail ==
    /\ [][(pc = "query" /\ pc' = "iter")
            => IF SingleUnambiguous
               THEN opt = {INFO_TAG_NAMEVER}
                    /\ opt' = {INFO_TAG_NAMEVER, INFO_FULL}
               ELSE opt' = opt /\ INFO_FULL \notin opt']_vars
    /\ []((pc = "iter" /\ flags = << >> /\ argc = 1)
            => (INFO_FULL \in opt <=> NamePart(tokens[1]) = <<"p">>))

\* pkg info p printed a package with the full detail
C17_Witness ==
    /\ pc = "iter" /\ argc = 1 /\ flags = << >>
    /\ tokens = << <<"p">> >>
    /\ opt = {INFO_TAG_NAMEVER, INFO_FULL}
    /\ printed # << >>

\* the adjustments after the option loop are done and exec_info goes on
Adjusted == pc \notin {"options", "done"}

C19_AccessCodes ==
    [][pc = "access"
         => /\ tokens' = << >> /\ opened' = 0 /\ printed' = << >>
            /\ IF ret' = "EPKG_OK" THEN pc' = "open" /\ result' = Running
               ELSE /\ pc' = "done"
                    /\ result' =
                         IF ret' = "EPKG_ENODB"
                         THEN IF match = MATCH_ALL \/ origin_search
                              THEN EX_OK ELSE EX_UNAVAILABLE
                         ELSE IF ret' = "EPKG_ENOACCESS"
                         THEN EX_NOPERM
                         ELSE EX_IOERR]_vars

\* pkg info -O p without a database returned EX_OK
C19_Witness ==
    /\ pc = "done" /\ ret = "EPKG_ENODB"
    /\ origin_search /\ match # MATCH_ALL /\ argc > 0
    /\ tokens = << >>
    /\ result = EX_OK

\* C20: once -F was read, exec_info opens the file, prints its one package
\* when pkg_open succeeds, and returns: pkgdb_access is never called, no
\* cursor is opened and no positional argument is taken up, whatever other
\* options and positional arguments were given.
C20_FileFirst ==
    file =>
      /\ pc \in {"file", "done"}
      /\ ret = "EPKG_OK" /\ db = "null"
      /\ it = "null" /\ opened = 0
      /\ tokens = << >> /\ argv = << >>
      /\ (pc = "done" /\ ~Given("?"))
           => /\ result \in {0, 1}
              /\ printed = IF result = 0 THEN << <<-1, << >> >> >> ELSE << >>

\* pkg info with -F, one more option and two positional arguments printed
\* the package of the file and returned 0
C20_Witness ==
    /\ file /\ pc = "done" /\ result = 0
    /\ Len(flags) = 2 /\ argc = 2
    /\ printed # << >>

\* the token of the specifier exec_info is working on, and the name it hands
\* to pkgdb_query: argv[i] up to its first NUL
CurrentToken == tokens[i + 1]

QueryName == CStr(argv, [arg |-> i, off |-> 0])

\* a cursor is asked for, or open, for a positional argument
Queried == pc \in {"query", "iter"} /\ argc > 0

\* the place of the first of <, > and = in tok from k on, Len(tok) + 1 when
\* there is none
RECURSIVE FirstOperatorChar(_, _)
FirstOperatorChar(tok, k) ==
    IF k > Len(tok) \/ tok[k] \in {"<", ">", "="} THEN k
    ELSE FirstOperatorChar(tok, k + 1)

\* tok without one trailing slash, cut before its first operator character
PrefixBeforeOperator(tok) ==
    LET t == IF tok # << >> /\ tok[Len(tok)] = "/"
             THEN SubSeq(tok, 1, Len(tok) - 1) ELSE tok
    IN SubSeq(t, 1, FirstOperatorChar(t, 1) - 1)

\* C21: the name handed to pkgdb_query is the token, one trailing slash
\* taken off, up to its first <, > or =, and holds none of these
\* characters.
C21_NameIsPrefix ==
    Queried
      => /\ QueryName = PrefixBeforeOperator(CurrentToken)
         /\ \A k \in 1..Len(QueryName) : QueryName[k] \notin {"<", ">", "="}

\* p>=1.0<2.0 is being iterated under the name p
C21_Witness ==
    /\ Queried /\ pc = "iter" /\ yielded > 0
    /\ CurrentToken = RangeToken
    /\ QueryName = <<"p">>

\* C22: pkgversion2 is set only when pkgversion is set, and a cursor asked
\* for or open under a mode other than ALL has a name that is not empty.
C22_ConstraintOrder ==
    /\ pkgversion2 # NULL => pkgversion # NULL
    /\ (pc \in {"query", "iter"} /\ match # MATCH_ALL) => QueryName # << >>

\* a specifier with two constraints is being iterated under a mode other
\* than ALL
C22_Witness ==
    /\ pc = "iter" /\ yielded > 0 /\ match # MATCH_ALL
    /\ pkgversion # NULL /\ pkgversion2 # NULL
    /\ pkgversion2.arg = i
    /\ QueryName = <<"p">>

\* the package pkgdb_it_next hands over in this step satisfies each
\* constraint that is set
PassesConstraints ==
    /\ pkgversion = NULL \/ Sat(sign, pkg', CStr(argv, pkgversion))
    /\ pkgversion2 = NULL \/ Sat(sign2, pkg', CStr(argv, pkgversion2))

\* C23: without -e, each package the cursor yields is handed to print_info
\* once, after those before it, when it satisfies every constraint that is
\* set, and not at all when it fails one; the end of the iteration prints
\* nothing.
C23_PrintedOnce ==
    [][(pc = "iter" /\ ~pkg_exists)
         => printed' = IF yielded' = yielded + 1 /\ PassesConstraints
                       THEN Append(printed, <<i, pkg'>>)
                       ELSE printed]_vars

\* 1.0 and then 1.5 were printed for p>=1.0<2.0
C23_Witness ==
    /\ pc = "iter" /\ ~pkg_exists /\ i = 0 /\ argc > 0
    /\ tokens[1] = RangeToken
    /\ yielded = 2
    /\ printed = << <<0, V10>>, <<0, V15>> >>

TwoLessToken == <<"p", "<", "1", ".", "0", "<", "2", ".", "0">>

\* p<1.0<2.0 is the first specifier and went through the scan
TwoLessScanned == Queried /\ i = 0 /\ CurrentToken = TwoLessToken

\* C24 as stated: p<1.0<2.0 passes the scan and its second operator
\* overwrites constraint 1, so that <2.0 alone is in effect.
C24_SecondOverwrites ==
    TwoLessScanned
      => /\ sign = LT /\ CStr(argv, pkgversion) = V20
         /\ pkgversion2 = NULL

\* C24, amended: p<1.0<2.0 as the first specifier passes the scan and is
\* queried under the name p; its second operator is recorded as constraint
\* 2 beside constraint 1, and a candidate is kept only when it is below 1.0
\* and below 2.0.
C24_BothKept ==
    TwoLessScanned
      => /\ QueryName = <<"p">> /\ result = Running
         /\ sign = LT /\ CStr(argv, pkgversion) = V10
         /\ sign2 = LT /\ CStr(argv, pkgversion2) = V20
         /\ Candidate => IF pkg = V09 THEN Kept ELSE Dropped

\* 1.5, which is below 2.0 but not below 1.0, was dropped for p<1.0<2.0
C24_Witness ==
    /\ TwoLessScanned /\ Candidate
    /\ pkg = V15 /\ Dropped

\* C25: a database handle pkgdb_open returned is closed by pkgdb_close
\* before exec_info returns, on whichever path it returns.
C25_HandleClosed == (pc = "done" /\ db # "null") => db = "closed"

====
